---- MODULE Spec2Model ----
(***************************************************************************)
(* A model of rslock's LockManager (src/src/lock.rs): the Redlock client   *)
(* that takes, extends and releases time-bounded locks on a set of Redis   *)
(* servers, the per-server commands and scripts it issues, and the clock   *)
(* that expires the keys.                                                  *)
(*                                                                         *)
(* Time is counted in whole milliseconds.  Every await of the source is a  *)
(* point where other managers and the clock may act, so each async method  *)
(* is split at its awaits: one step per server command, one step for the   *)
(* code that runs between two awaits.                                      *)
(***************************************************************************)
EXTENDS Integers, FiniteSets, Sequences, TLC

\* ---------------------------------------------------------------- constants

\* The tests run every scenario on three servers (create_clients).
NumServers == 3
\* ... and with two lock managers over the same servers (rl, rl2).
NumManagers == 2
DEFAULT_RETRY_COUNT == 3
\* Duration::from_millis(200)
DEFAULT_RETRY_DELAY == 200
\* The TTL of test_lock_with_short_ttl_and_retries, too short to be usable,
\* and the retry policy of that test: set_retry(10, Duration::from_millis(10)).
ShortTtl == 1
TestRetryCount == 10
TestRetryDelay == 10
\* CLOCK_DRIFT_FACTOR: f32 = 0.01 is the binary32 number 10737418 / 2^30.
CLOCK_DRIFT_FACTOR == 10737418

\* ------------------------------------------------------------------- bounds

\* The clock stops at MaxTime.
MaxTime == 2
\* The callers make at most MaxCalls calls of lock, extend and unlock.
MaxCalls == 2
\* When the callers make one call after the other, the clock stops at
\* SeqMaxTime ...
SeqMaxTime == 6
\* ... and they make at most SeqMaxCalls calls.
SeqMaxCalls == 3
\* The TTL the callers ask for when they want a usable lock.
LongTtl == 5
\* set_retry is tried with a count of at most MaxRetryCount ...
MaxRetryCount == 1
\* ... and a delay of at most MaxRetryDelay ms.
MaxRetryDelay == 1
\* A fan-out (every server's answer, and the code up to the next await) takes
\* at most MaxElapsed ms.
MaxElapsed == 1
\* At most MaxFaults times a server becomes unreachable.
MaxFaults == 2

\* The validity computation is tried with the TTLs 1..MaxProbeTtl, the TTLs
\* around the multiples of 100 up to 100 * MaxProbeHundreds ...
MaxProbeTtl == 12
MaxProbeHundreds == 3
\* ... and the TTLs 2^24 .. 2^24 + MaxProbeBig, where `ttl as f32` starts to
\* round;
MaxProbeBig == 100
\* with fan-outs that took up to MaxProbeSecs s and up to MaxProbeMillis ms
\* more.
MaxProbeSecs == 1
MaxProbeMillis == 3

Servers == 1..NumServers
Managers == 1..NumManagers
Ttls == {ShortTtl, LongTtl}

\* The one resource the managers contend for; commands on other keys do not
\* touch it.
NoValue == 0
NoKey == [val |-> NoValue, exp |-> 0]
\* A Lock descriptor.  val and validity_time are its fields; the rest is its
\* history: the operation that returned it and the TTL it was asked with, the
\* start_time of the successful attempt, when the call returned, the number of
\* that call, how many calls had been made by then, and the calls it has been
\* passed to since (each with its kind, its number and whether the validity
\* window was still open).
NoLock == [val |-> NoValue, validity_time |-> 0, by |-> "none", ttl |-> 0, from |-> 0,
           at |-> 0, seq |-> 0, ret |-> 0, uses |-> <<>>]

VARIABLES
    now,          \* the clock, in ms
    store,        \* store[s]: the resource key on server s (value, expiry)
    down,         \* the servers that refuse connections
    faults,       \* how many times a server became unreachable
    next_id,      \* how many lock ids get_unique_lock_id has handed out
    calls,        \* how many calls the callers have made
    retry_count,  \* retry_count[m]: LockManager.retry_count
    retry_delay,  \* retry_delay[m]: LockManager.retry_delay, a Duration
    call,         \* call[m]: the call manager m is in, and its locals
    res,          \* res[m]: what m's last call returned
    held,         \* held[m]: the Lock descriptor m's caller keeps
    task,         \* task[m]: the acquire or acquire_no_guard m's caller is in
    tokio_comp    \* whether the crate is built with the feature tokio-comp

vars == <<now, store, down, faults, next_id, calls, retry_count, retry_delay, call, res, held,
         task, tokio_comp>>

\* The locals of a call: where it is (pc), what was called (op), value and ttl,
\* start_time, the servers still to answer, those of them to which the
\* connection is made and the command not yet sent, the count n of those that
\* answered true, the index of the attempt, the end of the sleep; and, for the
\* record,
\* the number of the call, how many servers held the value when it began,
\* whether no server held the key then, and the servers that refused the
\* connection in the attempt's fan-out.
Idle == [pc |-> "idle", op |-> "none", val |-> NoValue, ttl |-> 0, start_time |-> 0,
         pending |-> {}, conn |-> {}, n |-> 0, attempt |-> 0, wake |-> 0, seq |-> 0,
         had |-> 0, free |-> FALSE, refused |-> {}]

\* --------------------------------------------------------- LockManager::new

\* A quorum that is no majority.
HalfQuorum(len) == len \div 2

\* quorum = (uris.len() as u32) / 2 + 1
Quorum(len) == (len \div 2) + 1

quorum == Quorum(NumServers)

\* ------------------------------------------------- the commands on a server

\* A server that never expires a key.
NeverExpired(k, t) == FALSE

\* A key is gone once the server's clock has passed its expiry.
Expired(k, t) == k.val # NoValue /\ t > k.exp

Purge(k, t) == IF Expired(k, t) THEN NoKey ELSE k

\* PX wants a positive number of milliseconds; the server rejects the command
\* otherwise.
ValidExpire(t) == t > 0

\* A SET without NX: it overwrites the key of another client.
SetOk(k, t) == ValidExpire(t)

\* SET resource val NX PX ttl: is the key set?  NX: only if it does not exist.
SetNxOk(k, t) == ValidExpire(t) /\ k.val = NoValue

\* A release script without the comparison: it deletes whatever is stored.
UnlockAny(k, v) == k.val # NoValue

\* UNLOCK_SCRIPT: if redis.call("GET", KEYS[1]) == ARGV[1] then DEL
UnlockMatches(k, v) == k.val # NoValue /\ k.val = v

\* An extend script without the comparison: it takes over whatever is stored.
ExtendAny(k, v) == k.val # NoValue

\* EXTEND_SCRIPT: if redis.call("get", KEYS[1]) ~= ARGV[1] then return 0
ExtendMatches(k, v) == k.val # NoValue /\ k.val = v

\* An extend script that leaves the key's TTL as it was.
ExtendKeepsTtl(k, v, t, at) == k

\* EXTEND_SCRIPT: set KEYS[1] ARGV[1] PX ARGV[2]; an invalid expire time makes
\* the script fail, and the key stays as it was.
ExtendSet(k, v, t, at) == IF ValidExpire(t) THEN [val |-> v, exp |-> at + t] ELSE k

\* A SET NX PX that gets through to a server that accepts no connection.
lock_unreachable(k, v, t, at, reachable) ==
    IF SetNxOk(k, t)
    THEN [key |-> [val |-> v, exp |-> at + t], ok |-> TRUE]
    ELSE [key |-> k, ok |-> FALSE]

\* lock_instance: the key after the command, and the bool returned.
lock_instance(k, v, t, at, reachable) ==
    IF reachable /\ SetNxOk(k, t)
    THEN [key |-> [val |-> v, exp |-> at + t], ok |-> TRUE]
    ELSE [key |-> k, ok |-> FALSE]

\* extend_lock_instance
extend_lock_instance(k, v, t, at, reachable) ==
    IF reachable /\ ExtendMatches(k, v)
    THEN [key |-> ExtendSet(k, v, t, at), ok |-> ValidExpire(t)]
    ELSE [key |-> k, ok |-> FALSE]

\* A release that never reaches the server.
unlock_lost(k, v, reachable) == [key |-> k, ok |-> FALSE]

\* A release that reaches a server that accepts no connection.
unlock_unreachable(k, v, reachable) ==
    IF UnlockMatches(k, v)
    THEN [key |-> NoKey, ok |-> TRUE]
    ELSE [key |-> k, ok |-> FALSE]

\* unlock_instance
unlock_instance(k, v, reachable) ==
    IF reachable /\ UnlockMatches(k, v)
    THEN [key |-> NoKey, ok |-> TRUE]
    ELSE [key |-> k, ok |-> FALSE]

\* ------------------------------------------------- the validity computation

RECURSIVE Log2(_)
\* The position of the leading bit of x >= 1.
Log2(x) == IF x < 2 THEN 0 ELSE 1 + Log2(x \div 2)

\* `ttl as f32`: the nearest number with a 24-bit significand, ties to even.
UsizeToF32(x) ==
    IF x < 2^24 THEN x
    ELSE LET ulp == 2^(Log2(x) - 23)
             q   == x \div ulp
             r   == x % ulp
             up  == 2 * r > ulp \/ (2 * r = ulp /\ q % 2 = 1)
         IN  (IF up THEN q + 1 ELSE q) * ulp

\* x * CLOCK_DRIFT_FACTOR exactly, as hi + lo / 2^30 with 0 <= lo < 2^30
\* (computed in 15-bit limbs).
MulDriftFactor(x) ==
    LET a   == x \div 2^15
        b   == x % 2^15
        c   == CLOCK_DRIFT_FACTOR \div 2^15
        d   == CLOCK_DRIFT_FACTOR % 2^15
        mid == a * d + b * c
        low == (mid % 2^15) * 2^15 + b * d
    IN  [hi |-> a * c + mid \div 2^15 + low \div 2^30, lo |-> low % 2^30]

\* `(x * CLOCK_DRIFT_FACTOR) as usize` for x an f32: the product is rounded to
\* a 24-bit significand, ties to even, and then truncated.
F32MulToUsize(x) ==
    LET p    == MulDriftFactor(x)
        half == IF p.hi = 0 THEN 2^5 ELSE 2^(Log2(p.hi) + 6)
        even == p.hi < 2^23 \/ p.hi % 2 = 1
        up   == p.lo > 2^30 - half \/ (p.lo = 2^30 - half /\ even)
    IN  IF up THEN p.hi + 1 ELSE p.hi

\* No allowance for clock drift.
NoDrift(t) == 0

\* let drift = (ttl as f32 * CLOCK_DRIFT_FACTOR) as usize + 2;
drift(t) == F32MulToUsize(UsizeToF32(t)) + 2

\* A std::time::Duration of ms milliseconds.
DurationMs(ms) == [secs |-> ms \div 1000, subsec_nanos |-> (ms % 1000) * 1000000]

\* elapsed.as_secs() as usize * 1000 + elapsed.subsec_nanos() as usize / 1_000_000
elapsed_ms(e) == e.secs * 1000 + e.subsec_nanos \div 1000000

\* if ttl <= drift + elapsed_ms { return Err(LockError::TtlExceeded); }
TtlExceeded(t, e) == t <= drift(t) + elapsed_ms(e)

\* let validity_time = ttl - drift - secs * 1000 - subsec_nanos / 1_000_000;
validity_time(t, e) == t - drift(t) - e.secs * 1000 - e.subsec_nanos \div 1000000

\* if n >= self.quorum && validity_time > 0
HasQuorum(cnt, q, t, e) == cnt >= q /\ validity_time(t, e) > 0

\* An attempt that looks at the quorum before it looks at the time.
QuorumFirst(cnt, q, t, e) ==
    IF cnt < q THEN "Rollback"
    ELSE IF TtlExceeded(t, e) THEN "TtlExceeded"
    ELSE "Ok"

\* What one attempt of exec_or_retry does once join_all has returned n.
AttemptOutcome(cnt, q, t, e) ==
    IF TtlExceeded(t, e) THEN "TtlExceeded"
    ELSE IF HasQuorum(cnt, q, t, e) THEN "Ok"
    ELSE "Rollback"

\* ------------------------------------------------------------ the machine

\* ------------------------------------------------ the ttl: Duration argument

\* The ttl arguments are Durations with the full u64 of seconds, kept as four
\* 16-bit limbs, least significant first, and the nanoseconds below a second.
Limb == 2^16

\* Duration::from_millis(ms): ms / 1000 seconds and (ms % 1000) * 1_000_000 ns.
from_millis(ms) ==
    [secs |-> <<(ms \div 1000) % Limb, (ms \div 1000) \div Limb, 0, 0>>,
     subsec_nanos |-> (ms % 1000) * 1000000]

\* Duration::from_secs(u64::MAX)
SecsMax == [secs |-> <<Limb - 1, Limb - 1, Limb - 1, Limb - 1>>, subsec_nanos |-> 0]

\* The limbs of x * k + c, as many as x has (k and c below a limb).
RECURSIVE MulAdd(_, _, _)
MulAdd(x, k, c) ==
    IF x = << >> THEN << >>
    ELSE LET p == Head(x) * k + c
         IN  <<p % Limb>> \o MulAdd(Tail(x), k, p \div Limb)

\* Duration::as_millis: secs as u128 * 1000 + (nanos / 1_000_000) as u128, a
\* u128 of eight limbs.
as_millis(d) == MulAdd(d.secs \o <<0, 0, 0, 0>>, 1000, d.subsec_nanos \div 1000000)

\* A conversion that takes any u128.
TryIntoAny(x) == [ok |-> TRUE, val |-> SubSeq(x, 1, 4)]

\* u128 -> usize and u128 -> u64 by try_into (usize of 64 bits): an error when
\* the value needs more than four limbs.
TryInto(x) ==
    IF \A i \in 5..8 : x[i] = 0
    THEN [ok |-> TRUE, val |-> SubSeq(x, 1, 4)]
    ELSE [ok |-> FALSE, val |-> << >>]

\* A usize that the clock of this model can count to, and its number.
Countable(v) == v[3] = 0 /\ v[4] = 0 /\ v[2] < 2^14
AsInt(v) == v[1] + v[2] * Limb

\* The largest Duration that is no TtlTooLarge, u64::MAX ms, and the smallest
\* that is one.
LargestTtl == [secs |-> <<42991, 19398, 35127, 65>>, subsec_nanos |-> 615999999]
TooLargeTtl == [secs |-> <<42991, 19398, 35127, 65>>, subsec_nanos |-> 616000000]

\* The caller's acquire or acquire_no_guard: which of the two, its ttl, what it
\* returned, and whether the caller has the LockGuard it returned; and, for the
\* record, what the loop's calls of lock returned and the number of the last
\* of them.
NoTask == [op |-> "none", ttl |-> from_millis(0), out |-> "None", guard |-> FALSE,
           lock |-> NoLock, rets |-> << >>, last |-> 0]

\* The caller of m is inside acquire or acquire_no_guard.
Looping(m) == task[m].op # "none" /\ task[m].out = "None"

\* Two managers made by LockManager::new over the same servers, and then
\* given the retry policy (count, Duration::from_millis(delay)) by set_retry,
\* in a build with the feature tokio-comp or without it.
InitBuild(count, delay, tokio) ==
    /\ now = 0
    /\ store = [s \in Servers |-> NoKey]
    /\ down = {}
    /\ faults = 0
    /\ next_id = 0
    /\ calls = 0
    /\ retry_count = [m \in Managers |-> count]
    /\ retry_delay = [m \in Managers |-> from_millis(delay)]
    /\ call = [m \in Managers |-> Idle]
    /\ res = [m \in Managers |-> "None"]
    /\ held = [m \in Managers |-> NoLock]
    /\ task = [m \in Managers |-> NoTask]
    /\ tokio_comp = tokio

InitWith(count, delay) == InitBuild(count, delay, FALSE)

\* LockManager::new: retry_count: DEFAULT_RETRY_COUNT, retry_delay:
\* DEFAULT_RETRY_DELAY.
Init == InitWith(DEFAULT_RETRY_COUNT, DEFAULT_RETRY_DELAY)

\* A manager waiting for the servers' answers has waited less than MaxElapsed.
InTime(m) ==
    call[m].pc \in {"fanout", "rollback", "unlock"} => now - call[m].start_time < MaxElapsed

\* A millisecond passes; the servers drop the keys whose TTL has run out.
TickTo(limit) ==
    /\ now < limit
    /\ \A m \in Managers : InTime(m)
    /\ now' = now + 1
    /\ store' = [s \in Servers |-> Purge(store[s], now + 1)]
    /\ UNCHANGED <<down, faults, next_id, calls, retry_count, retry_delay, call, res, held,
                 task, tokio_comp>>

Tick == TickTo(MaxTime)

\* Server s stops accepting connections; it keeps its keys.
Fail(s) ==
    /\ s \notin down
    /\ faults < MaxFaults
    /\ down' = down \cup {s}
    /\ faults' = faults + 1
    /\ UNCHANGED <<now, store, next_id, calls, retry_count, retry_delay, call, res, held,
                 task, tokio_comp>>

Recover(s) ==
    /\ s \in down
    /\ down' = down \ {s}
    /\ UNCHANGED <<now, store, faults, next_id, calls, retry_count, retry_delay, call, res, held,
                 task, tokio_comp>>

\* set_retry takes &mut self: no call is running and no Lock borrows the
\* manager.
set_retry(m, count, delay) ==
    /\ call[m].pc = "idle"
    /\ held[m] = NoLock
    /\ retry_count' = [retry_count EXCEPT ![m] = count]
    /\ retry_delay' = [retry_delay EXCEPT ![m] = delay]
    /\ UNCHANGED <<now, store, down, faults, next_id, calls, call, res, held,
                 task, tokio_comp>>

\* The caller of a gives a clone of its Lock to the caller of b, which has
\* none: extend and unlock take any Lock, whichever manager returned it.
share(a, b) ==
    /\ a # b
    /\ held[a] # NoLock
    /\ held[b] = NoLock
    /\ held' = [held EXCEPT ![b] = held[a]]
    /\ UNCHANGED <<now, store, down, faults, next_id, calls, retry_count, retry_delay,
                 call, res, task, tokio_comp>>

\* How many servers hold the resource key with value v.
Holders(v) == Cardinality({s \in Servers : store[s].val = v})

\* The validity window of descriptor l is still open.
WindowOpen(l) == l.val # NoValue /\ now - l.at < l.validity_time

\* The record of passing descriptor l to call o.
Use(l, o) == [op |-> o, seq |-> calls + 1, live |-> WindowOpen(l)]

\* A loop that makes its first attempt whatever the retry count.
AttemptFirst(m, o, v, t) ==
    /\ call' = [call EXCEPT ![m] = [pc |-> "fanout", op |-> o, val |-> v, ttl |-> t,
                                    start_time |-> now, pending |-> Servers, conn |-> {},
                                    n |-> 0, attempt |-> 0, wake |-> 0,
                                    seq |-> calls + 1, had |-> Holders(v),
                                    free |-> Holders(NoValue) = NumServers,
                                    refused |-> {}]]
    /\ res' = [res EXCEPT ![m] = "None"]

\* exec_or_retry up to its first await: `for _ in 0..self.retry_count`, with
\* start_time = Instant::now() and the fan-out to every server; with a retry
\* count of 0 the loop body never runs.
ExecOrRetry(m, o, v, t) ==
    IF retry_count[m] = 0
    THEN /\ call' = [call EXCEPT ![m] = Idle]
         /\ res' = [res EXCEPT ![m] = "Unavailable"]
    ELSE /\ call' = [call EXCEPT ![m] = [pc |-> "fanout", op |-> o, val |-> v, ttl |-> t,
                                         start_time |-> now, pending |-> Servers, conn |-> {},
                                         n |-> 0, attempt |-> 0, wake |-> 0,
                                         seq |-> calls + 1, had |-> Holders(v),
                                         free |-> Holders(NoValue) = NumServers,
                                         refused |-> {}]]
         /\ res' = [res EXCEPT ![m] = "None"]

\* lock, called by m's caller or by the loop of acquire_no_guard: a fresh value
\* from get_unique_lock_id, then the ttl in ms as a usize or
\* Err(LockError::TtlTooLarge), then exec_or_retry with lock_instance.
lock_call(m, d) ==
    /\ call[m].pc = "idle"
    /\ calls' = calls + 1
    /\ next_id' = next_id + 1
    /\ LET ttl == TryInto(as_millis(d))
       IN  IF ttl.ok
           THEN /\ Countable(ttl.val)
                /\ ExecOrRetry(m, "lock", next_id + 1, AsInt(ttl.val))
           ELSE /\ call' = [call EXCEPT ![m] = Idle]
                /\ res' = [res EXCEPT ![m] = "TtlTooLarge"]
    /\ UNCHANGED <<now, store, down, faults, retry_count, retry_delay, held, tokio_comp>>

lock(m, d) ==
    /\ ~Looping(m)
    /\ lock_call(m, d)
    /\ UNCHANGED task

\* extend: the ttl in ms as a usize or Err(LockError::TtlTooLarge), then
\* exec_or_retry with extend_lock_instance and the lock's own value.
extend(m, d) ==
    /\ call[m].pc = "idle"
    /\ ~Looping(m)
    /\ held[m] # NoLock
    /\ calls' = calls + 1
    /\ LET ttl == TryInto(as_millis(d))
       IN  IF ttl.ok
           THEN /\ Countable(ttl.val)
                /\ ExecOrRetry(m, "extend", held[m].val, AsInt(ttl.val))
           ELSE /\ call' = [call EXCEPT ![m] = Idle]
                /\ res' = [res EXCEPT ![m] = "TtlTooLarge"]
    /\ held' = [held EXCEPT ![m].uses = Append(@, Use(held[m], "extend"))]
    /\ UNCHANGED <<now, store, down, faults, next_id, retry_count, retry_delay,
                 task, tokio_comp>>

\* The per-server futures (lock_instance, extend_lock_instance and
\* unlock_instance) await get_async_connection and then the command.  The
\* connection of m's running future for server s is made, the command not yet
\* sent: from then on the command reaches s also when s accepts no new
\* connection.  Where no server ever refuses a connection, when the
\* connection is made changes nothing, and the future runs in one step.
Connect(m, s) ==
    /\ call[m].pc \in {"fanout", "rollback", "unlock"}
    /\ s \in call[m].pending \ call[m].conn
    /\ s \notin down
    /\ call' = [call EXCEPT ![m].conn = @ \cup {s}]
    /\ UNCHANGED <<now, store, down, faults, next_id, calls, retry_count, retry_delay,
                 res, held, task, tokio_comp>>

\* The command of m's future reaches server s: on the connection made before,
\* or on one made now unless s refuses it (Err(_) => return false).
Reaches(m, s) == s \in call[m].conn \/ s \notin down

\* One server's future of the fan-out (lock_instance or extend_lock_instance)
\* runs its command, or ends with the connection refused.
FanOut(m, s) ==
    /\ call[m].pc = "fanout"
    /\ s \in call[m].pending
    /\ LET c == call[m]
           r == IF c.op = "lock"
                THEN lock_instance(store[s], c.val, c.ttl, now, Reaches(m, s))
                ELSE extend_lock_instance(store[s], c.val, c.ttl, now, Reaches(m, s))
       IN  /\ store' = [store EXCEPT ![s] = r.key]
           /\ call' = [call EXCEPT ![m].pending = c.pending \ {s},
                                   ![m].conn = c.conn \ {s},
                                   ![m].n = IF r.ok THEN c.n + 1 ELSE c.n,
                                   ![m].refused = IF Reaches(m, s) THEN c.refused
                                                  ELSE c.refused \cup {s}]
    /\ UNCHANGED <<now, down, faults, next_id, calls, retry_count, retry_delay, res, held,
                 task, tokio_comp>>

\* An attempt of extend that, without quorum, rolls back on no server.
DecideSparesExtend(m) ==
    /\ call[m].pc = "fanout"
    /\ call[m].pending = {}
    /\ LET c == call[m]
           e == DurationMs(now - c.start_time)
           o == AttemptOutcome(c.n, quorum, c.ttl, e)
       IN  CASE o = "TtlExceeded" ->
                  /\ call' = [call EXCEPT ![m] = Idle]
                  /\ res' = [res EXCEPT ![m] = "TtlExceeded"]
                  /\ UNCHANGED held
             [] o = "Ok" ->
                  /\ call' = [call EXCEPT ![m] = Idle]
                  /\ res' = [res EXCEPT ![m] = "Ok"]
                  /\ held' = [held EXCEPT ![m] =
                                [val |-> c.val, validity_time |-> validity_time(c.ttl, e),
                                 by |-> c.op, ttl |-> c.ttl, from |-> c.start_time, at |-> now,
                                 seq |-> c.seq, ret |-> calls, uses |-> <<>>]]
             [] OTHER ->
                  /\ call' = [call EXCEPT ![m].pc = "rollback",
                                          ![m].pending = IF c.op = "extend" THEN {}
                                                         ELSE Servers,
                                          ![m].start_time = now]
                  /\ UNCHANGED <<res, held>>
    /\ UNCHANGED <<now, store, down, faults, next_id, calls, retry_count, retry_delay,
                 task, tokio_comp>>

\* An attempt that releases the keys it has set before it returns TtlExceeded.
DecideReleases(m) ==
    /\ call[m].pc = "fanout"
    /\ call[m].pending = {}
    /\ LET c == call[m]
           e == DurationMs(now - c.start_time)
           o == AttemptOutcome(c.n, quorum, c.ttl, e)
       IN  CASE o = "TtlExceeded" ->
                  /\ call' = [call EXCEPT ![m] = Idle]
                  /\ res' = [res EXCEPT ![m] = "TtlExceeded"]
                  /\ store' = [s \in Servers |->
                                 unlock_instance(store[s], c.val, Reaches(m, s)).key]
                  /\ UNCHANGED held
             [] o = "Ok" ->
                  /\ call' = [call EXCEPT ![m] = Idle]
                  /\ res' = [res EXCEPT ![m] = "Ok"]
                  /\ held' = [held EXCEPT ![m] =
                                [val |-> c.val, validity_time |-> validity_time(c.ttl, e),
                                 by |-> c.op, ttl |-> c.ttl, from |-> c.start_time, at |-> now,
                                 seq |-> c.seq, ret |-> calls, uses |-> <<>>]]
                  /\ UNCHANGED store
             [] OTHER ->
                  /\ call' = [call EXCEPT ![m].pc = "rollback", ![m].pending = Servers,
                                          ![m].start_time = now]
                  /\ UNCHANGED <<res, held, store>>
    /\ UNCHANGED <<now, down, faults, next_id, calls, retry_count, retry_delay,
                 task, tokio_comp>>

\* join_all has returned: drift, elapsed, the TtlExceeded check, the validity
\* and the quorum decision.
Decide(m) ==
    /\ call[m].pc = "fanout"
    /\ call[m].pending = {}
    /\ LET c == call[m]
           e == DurationMs(now - c.start_time)
           o == AttemptOutcome(c.n, quorum, c.ttl, e)
       IN  CASE o = "TtlExceeded" ->
                  /\ call' = [call EXCEPT ![m] = Idle]
                  /\ res' = [res EXCEPT ![m] = "TtlExceeded"]
                  /\ UNCHANGED held
             [] o = "Ok" ->
                  /\ call' = [call EXCEPT ![m] = Idle]
                  /\ res' = [res EXCEPT ![m] = "Ok"]
                  /\ held' = [held EXCEPT ![m] =
                                [val |-> c.val, validity_time |-> validity_time(c.ttl, e),
                                 by |-> c.op, ttl |-> c.ttl, from |-> c.start_time, at |-> now,
                                 seq |-> c.seq, ret |-> calls, uses |-> <<>>]]
             [] OTHER ->
                  /\ call' = [call EXCEPT ![m].pc = "rollback", ![m].pending = Servers,
                                          ![m].start_time = now]
                  /\ UNCHANGED <<res, held>>
    /\ UNCHANGED <<now, store, down, faults, next_id, calls, retry_count, retry_delay,
                 task, tokio_comp>>

\* A rollback that only ticks the server off.
RollbackSkipped(m, s) ==
    /\ call[m].pc = "rollback"
    /\ s \in call[m].pending
    /\ call' = [call EXCEPT ![m].pending = call[m].pending \ {s},
                            ![m].conn = call[m].conn \ {s}]
    /\ UNCHANGED <<now, store, down, faults, next_id, calls, retry_count, retry_delay,
                 res, held, task, tokio_comp>>

\* One server's unlock_instance of the rollback.
Rollback(m, s) ==
    /\ call[m].pc = "rollback"
    /\ s \in call[m].pending
    /\ store' = [store EXCEPT ![s] =
                    unlock_instance(store[s], call[m].val, Reaches(m, s)).key]
    /\ call' = [call EXCEPT ![m].pending = call[m].pending \ {s},
                            ![m].conn = call[m].conn \ {s}]
    /\ UNCHANGED <<now, down, faults, next_id, calls, retry_count, retry_delay, res, held,
                 task, tokio_comp>>

\* The rollback's join_all has returned: retry_delay.as_millis() as a u64 or
\* Err(LockError::TtlTooLarge); then thread_rng().gen_range(0..retry_delay),
\* which panics on the empty range 0..0; otherwise sleep for the n ms drawn
\* (the clock of the specification ends at limit).
BackoffTo(m, limit) ==
    /\ call[m].pc = "rollback"
    /\ call[m].pending = {}
    /\ LET delay == TryInto(as_millis(retry_delay[m]))
       IN  IF ~delay.ok
           THEN /\ call' = [call EXCEPT ![m] = Idle]
                /\ res' = [res EXCEPT ![m] = "TtlTooLarge"]
           ELSE IF delay.val = <<0, 0, 0, 0>>
           THEN /\ call' = [call EXCEPT ![m].pc = "panicked"]
                /\ res' = [res EXCEPT ![m] = "Panic"]
           ELSE /\ \E d \in 0..(IF Countable(delay.val) THEN AsInt(delay.val) - 1
                                ELSE limit - now) :
                     /\ now + d <= limit
                     /\ call' = [call EXCEPT ![m].pc = "sleep", ![m].wake = now + d]
                /\ UNCHANGED res
    /\ UNCHANGED <<now, store, down, faults, next_id, calls, retry_count, retry_delay, held,
                 task, tokio_comp>>

Backoff(m) == BackoffTo(m, MaxTime)

\* The sleep is over: the next iteration of the loop, or Err(Unavailable) when
\* the retry_count iterations are used up.
Wake(m) ==
    /\ call[m].pc = "sleep"
    /\ now >= call[m].wake
    /\ IF call[m].attempt + 1 < retry_count[m]
       THEN /\ call' = [call EXCEPT ![m].pc = "fanout", ![m].attempt = call[m].attempt + 1,
                                    ![m].start_time = now, ![m].pending = Servers,
                                    ![m].n = 0, ![m].refused = {}]
            /\ UNCHANGED res
       ELSE /\ call' = [call EXCEPT ![m] = Idle]
            /\ res' = [res EXCEPT ![m] = "Unavailable"]
    /\ UNCHANGED <<now, store, down, faults, next_id, calls, retry_count, retry_delay, held,
                 task, tokio_comp>>

\* unlock up to its await, with the Lock l: the fan-out of unlock_instance to
\* every server.
unlock_lock(m, l) ==
    /\ call[m].pc = "idle"
    /\ l # NoLock
    /\ call' = [call EXCEPT ![m] = [Idle EXCEPT !.pc = "unlock", !.op = "unlock",
                                                !.val = l.val, !.pending = Servers,
                                                !.start_time = now, !.seq = calls + 1,
                                                !.had = Holders(l.val)]]
    /\ res' = [res EXCEPT ![m] = "None"]
    /\ held' = [held EXCEPT ![m].uses = IF held[m].val = l.val
                                        THEN Append(@, Use(held[m], "unlock"))
                                        ELSE @]
    /\ calls' = calls + 1
    /\ UNCHANGED <<now, store, down, faults, next_id, retry_count, retry_delay, tokio_comp>>

\* unlock, called by m's caller with the Lock it has.
unlock_call(m) == unlock_lock(m, held[m])

unlock(m) ==
    /\ ~Looping(m)
    /\ unlock_call(m)
    /\ UNCHANGED task

\* One server's unlock_instance of unlock.
Unlock(m, s) ==
    /\ call[m].pc = "unlock"
    /\ s \in call[m].pending
    /\ LET r == unlock_instance(store[s], call[m].val, Reaches(m, s))
       IN  /\ store' = [store EXCEPT ![s] = r.key]
           /\ call' = [call EXCEPT ![m].pending = call[m].pending \ {s},
                                   ![m].conn = call[m].conn \ {s}]
    /\ UNCHANGED <<now, down, faults, next_id, calls, retry_count, retry_delay, res, held,
                 task, tokio_comp>>

\* unlock's join_all has returned; the results are dropped.
Unlocked(m) ==
    /\ call[m].pc = "unlock"
    /\ call[m].pending = {}
    /\ call' = [call EXCEPT ![m] = Idle]
    /\ res' = [res EXCEPT ![m] = "Unit"]
    /\ UNCHANGED <<now, store, down, faults, next_id, calls, retry_count, retry_delay, held,
                 task, tokio_comp>>

\* ------------------------------------------- acquire_no_guard, acquire, drop

\* A loop that returns whatever lock returned.
MatchReturnsAll(r) == TRUE

\* The match of acquire_no_guard: Ok(lock) and Err(LockError::TtlTooLarge)
\* return, Err(_) continues.
MatchReturns(r) == r \in {"Ok", "TtlTooLarge"}

\* The caller enters the loop of acquire_no_guard (o = "acquire_no_guard") or
\* of the acquire that awaits it (o = "acquire"): the first self.lock.
Enter(m, o, d) ==
    /\ ~Looping(m)
    /\ ~task[m].guard
    /\ task' = [task EXCEPT ![m] = [op |-> o, ttl |-> d, out |-> "None", guard |-> FALSE,
                                    lock |-> NoLock, rets |-> << >>, last |-> calls + 1]]
    /\ lock_call(m, d)

acquire_no_guard(m, d) == Enter(m, "acquire_no_guard", d)

\* acquire, of the builds with the feature async-std-comp.
acquire(m, d) == Enter(m, "acquire", d)

\* A loop that gives up at the second error: it returns what lock returned.
ContinueOrGiveUp(m) ==
    /\ Looping(m)
    /\ call[m].pc = "idle"
    /\ ~MatchReturns(res[m])
    /\ IF Len(task[m].rets) >= 1
       THEN /\ task' = [task EXCEPT ![m].out = res[m], ![m].rets = Append(@, res[m])]
            /\ UNCHANGED <<now, store, down, faults, next_id, calls, retry_count, retry_delay,
                         call, res, held, tokio_comp>>
       ELSE /\ lock_call(m, task[m].ttl)
            /\ task' = [task EXCEPT ![m].rets = Append(@, res[m]), ![m].last = calls + 1]

\* Err(_) => continue: the next self.lock, with the same ttl.
Continue(m) ==
    /\ Looping(m)
    /\ call[m].pc = "idle"
    /\ ~MatchReturns(res[m])
    /\ lock_call(m, task[m].ttl)
    /\ task' = [task EXCEPT ![m].rets = Append(@, res[m]), ![m].last = calls + 1]

\* The loop returns what lock returned; acquire puts an Ok(lock) into a
\* LockGuard and passes an error on.
Return(m) ==
    /\ Looping(m)
    /\ call[m].pc = "idle"
    /\ MatchReturns(res[m])
    /\ task' = [task EXCEPT ![m].out = res[m], ![m].rets = Append(@, res[m]),
                            ![m].guard = (task[m].op = "acquire" /\ res[m] = "Ok"),
                            ![m].lock = IF task[m].op = "acquire" /\ res[m] = "Ok"
                                        THEN held[m] ELSE NoLock]
    /\ UNCHANGED <<now, store, down, faults, next_id, calls, retry_count, retry_delay,
                 call, res, held, tokio_comp>>

\* A guard whose drop releases nothing.
drop_forget(m) ==
    /\ task[m].guard
    /\ call[m].pc = "idle"
    /\ task' = [task EXCEPT ![m].guard = FALSE, ![m].lock = NoLock]
    /\ UNCHANGED <<now, store, down, faults, next_id, calls, retry_count, retry_delay,
                 call, res, held, tokio_comp>>

\* The caller drops its LockGuard: block_on(unlock(&self.lock)), with the
\* guard's own Lock, up to unlock's await; or nothing at all in a build with
\* tokio-comp, which has no Drop impl.
drop(m) ==
    /\ task[m].guard
    /\ call[m].pc = "idle"
    /\ task' = [task EXCEPT ![m].guard = FALSE, ![m].lock = NoLock]
    /\ IF tokio_comp
       THEN UNCHANGED <<now, store, down, faults, next_id, calls, retry_count, retry_delay,
                        call, res, held, tokio_comp>>
       ELSE unlock_lock(m, task[m].lock)

\* The managers have the same servers and the same retry policy, so let the
\* first manager be the one that is called first.
FirstLocks(m) == next_id = 0 => m = 1

\* Two callers, each with its own manager, call lock, extend and unlock as they
\* like, also while the other's call is running.
Next ==
    \/ Tick
    \/ \E m \in Managers, t \in Ttls :
          calls < MaxCalls /\ FirstLocks(m) /\ lock(m, from_millis(t))
    \/ \E m \in Managers, t \in Ttls : calls < MaxCalls /\ extend(m, from_millis(t))
    \/ \E m \in Managers : calls < MaxCalls /\ unlock(m)
    \/ \E m \in Managers, s \in Servers : FanOut(m, s)
    \/ \E m \in Managers : Decide(m)
    \/ \E m \in Managers, s \in Servers : Rollback(m, s)
    \/ \E m \in Managers : Backoff(m)
    \/ \E m \in Managers : Wake(m)
    \/ \E m \in Managers, s \in Servers : Unlock(m, s)
    \/ \E m \in Managers : Unlocked(m)

\* The managers' retry policy in the specifications below: set_retry(1, 1 ms).
Spec == InitWith(1, 1) /\ [][Next]_vars

\* The same two callers with managers that make up to RollbackRetryCount
\* attempts per call (set_retry(2, 1 ms) before the first call): they call
\* lock, extend and unlock as they like, also while the other's call is
\* running, so that an attempt can lose on some servers, roll back, sleep and
\* be made again.  All of it happens within one ms.
RollbackRetryCount == 2

RollbackNext ==
    \/ \E m \in Managers, t \in Ttls :
          calls < SeqMaxCalls /\ FirstLocks(m) /\ lock(m, from_millis(t))
    \/ \E m \in Managers, t \in Ttls : calls < SeqMaxCalls /\ extend(m, from_millis(t))
    \/ \E m \in Managers : calls < SeqMaxCalls /\ unlock(m)
    \/ \E m \in Managers, s \in Servers : FanOut(m, s)
    \/ \E m \in Managers : Decide(m)
    \/ \E m \in Managers, s \in Servers : Rollback(m, s)
    \/ \E m \in Managers : Backoff(m)
    \/ \E m \in Managers : Wake(m)
    \/ \E m \in Managers, s \in Servers : Unlock(m, s)
    \/ \E m \in Managers : Unlocked(m)

RollbackSpec == InitWith(RollbackRetryCount, 1) /\ [][RollbackNext]_vars

\* One caller drives both managers, one call after the other, as the tests do;
\* it asks for locks of LongTtl, extends them by any TTL, and releases them or
\* lets them run out.
AllIdle == \A m \in Managers : call[m].pc = "idle"

SeqNext ==
    \/ TickTo(SeqMaxTime)
    \/ \E m \in Managers :
          AllIdle /\ calls < SeqMaxCalls /\ FirstLocks(m) /\ lock(m, from_millis(LongTtl))
    \/ \E m \in Managers, t \in Ttls : AllIdle /\ calls < SeqMaxCalls /\ extend(m, from_millis(t))
    \/ \E m \in Managers : AllIdle /\ calls < SeqMaxCalls /\ unlock(m)
    \/ \E m \in Managers, s \in Servers : FanOut(m, s)
    \/ \E m \in Managers : Decide(m)
    \/ \E m \in Managers, s \in Servers : Rollback(m, s)
    \/ \E m \in Managers : BackoffTo(m, SeqMaxTime)
    \/ \E m \in Managers : Wake(m)
    \/ \E m \in Managers, s \in Servers : Unlock(m, s)
    \/ \E m \in Managers : Unlocked(m)

SeqSpec == InitWith(1, 1) /\ [][SeqNext]_vars

\* The caller never releases: it takes locks of any TTL, extends them by
\* LongTtl and lets them run out.
ExpiryNext ==
    \/ TickTo(SeqMaxTime)
    \/ \E m \in Managers, t \in Ttls :
          AllIdle /\ calls < SeqMaxCalls /\ FirstLocks(m) /\ lock(m, from_millis(t))
    \/ \E m \in Managers : AllIdle /\ calls < SeqMaxCalls /\ extend(m, from_millis(LongTtl))
    \/ \E m \in Managers, s \in Servers : FanOut(m, s)
    \/ \E m \in Managers : Decide(m)
    \/ \E m \in Managers, s \in Servers : Rollback(m, s)
    \/ \E m \in Managers : BackoffTo(m, SeqMaxTime)
    \/ \E m \in Managers : Wake(m)

ExpirySpec == InitWith(1, 1) /\ [][ExpiryNext]_vars

\* The caller of the first manager takes locks of LongTtl with lock, the
\* caller of the second locks of a short, a long or a too large ttl with
\* acquire_no_guard; they let them run out.
BlockingTtls == {from_millis(ShortTtl), from_millis(LongTtl), TooLargeTtl}

BlockingNext ==
    \/ TickTo(SeqMaxTime)
    \/ AllIdle /\ calls < SeqMaxCalls /\ lock(1, from_millis(LongTtl))
    \/ \E d \in BlockingTtls : AllIdle /\ calls < SeqMaxCalls /\ acquire_no_guard(2, d)
    \/ \E m \in Managers : AllIdle /\ calls < SeqMaxCalls /\ Continue(m)
    \/ \E m \in Managers : Return(m)
    \/ \E m \in Managers, s \in Servers : FanOut(m, s)
    \/ \E m \in Managers : Decide(m)
    \/ \E m \in Managers, s \in Servers : Rollback(m, s)
    \/ \E m \in Managers : BackoffTo(m, SeqMaxTime)
    \/ \E m \in Managers : Wake(m)

BlockingSpec == InitWith(1, 1) /\ [][BlockingNext]_vars

\* The caller of the first manager gives it a retry policy with set_retry
\* before its first call, as test_lock_with_short_ttl_and_retries does, and
\* then locks and extends, also with a clone of the second manager's Lock;
\* the caller of the second manager takes locks of LongTtl.  One call is made
\* after the other.  The retry delays are of 0 ms to MaxRetryDelay ms, the
\* test's, and a Duration of one ms more than u64::MAX ms.
RetryCounts == (0..MaxRetryCount) \cup {TestRetryCount}
RetryDelays ==
    {from_millis(d) : d \in (0..MaxRetryDelay) \cup {TestRetryDelay}} \cup {TooLargeTtl}

RetryNext ==
    \/ TickTo(MaxTime)
    \/ \E count \in RetryCounts, delay \in RetryDelays : calls = 0 /\ set_retry(1, count, delay)
    \/ \E t \in Ttls : AllIdle /\ calls < MaxCalls /\ lock(1, from_millis(t))
    \/ AllIdle /\ calls < MaxCalls /\ lock(2, from_millis(LongTtl))
    \/ AllIdle /\ calls < MaxCalls /\ extend(1, from_millis(LongTtl))
    \/ AllIdle /\ share(2, 1)
    \/ \E m \in Managers, s \in Servers : FanOut(m, s)
    \/ \E m \in Managers : Decide(m)
    \/ \E m \in Managers, s \in Servers : Rollback(m, s)
    \/ \E m \in Managers : Backoff(m)
    \/ \E m \in Managers : Wake(m)

RetrySpec == InitWith(1, 1) /\ [][RetryNext]_vars

\* The callers lock and extend with a ttl of LongTtl, with the smallest
\* Duration that is too large, and with Duration::from_secs(u64::MAX), one call
\* after the other.
CallTtls == {from_millis(LongTtl), TooLargeTtl, SecsMax}

TtlNext ==
    \/ TickTo(MaxTime)
    \/ \E m \in Managers, d \in CallTtls :
          AllIdle /\ calls < SeqMaxCalls /\ FirstLocks(m) /\ lock(m, d)
    \/ \E m \in Managers, d \in CallTtls : AllIdle /\ calls < SeqMaxCalls /\ extend(m, d)
    \/ \E m \in Managers, s \in Servers : FanOut(m, s)
    \/ \E m \in Managers : Decide(m)
    \/ \E m \in Managers, s \in Servers : Rollback(m, s)
    \/ \E m \in Managers : Backoff(m)
    \/ \E m \in Managers : Wake(m)

TtlSpec == InitWith(1, 1) /\ [][TtlNext]_vars

\* Servers become unreachable and reachable again, also while a call is
\* running and between the connection of a future and its command.  The
\* caller of the first manager takes locks of any TTL, extends and releases
\* them; the caller of the second takes locks of LongTtl.  One call is made
\* after the other, and all within one ms.
FaultNext ==
    \/ \E s \in Servers : Fail(s)
    \/ \E s \in Servers : Recover(s)
    \/ \E t \in Ttls : AllIdle /\ calls < SeqMaxCalls /\ lock(1, from_millis(t))
    \/ AllIdle /\ calls < SeqMaxCalls /\ lock(2, from_millis(LongTtl))
    \/ AllIdle /\ calls < SeqMaxCalls /\ extend(1, from_millis(LongTtl))
    \/ AllIdle /\ calls < SeqMaxCalls /\ unlock(1)
    \/ \E m \in Managers, s \in Servers : Connect(m, s)
    \/ \E m \in Managers, s \in Servers : FanOut(m, s)
    \/ \E m \in Managers : Decide(m)
    \/ \E m \in Managers, s \in Servers : Rollback(m, s)
    \/ \E m \in Managers : Backoff(m)
    \/ \E m \in Managers : Wake(m)
    \/ \E m \in Managers, s \in Servers : Unlock(m, s)
    \/ \E m \in Managers : Unlocked(m)

FaultSpec == InitWith(1, 1) /\ [][FaultNext]_vars

\* The caller of the first manager takes locks of LongTtl with acquire (also
\* with a too large ttl) and with lock, releases them with unlock (the guard's
\* Lock too, a pub field) and drops the guards; the caller of the second, the
\* contender, takes locks of ShortTtl or LongTtl with lock.  One call is made
\* after the other, in a build with tokio-comp or without it.
GuardTtls == {from_millis(LongTtl), TooLargeTtl}

GuardNext ==
    \/ TickTo(MaxTime)
    \/ \E d \in GuardTtls : AllIdle /\ calls < SeqMaxCalls /\ acquire(1, d)
    \/ AllIdle /\ calls < SeqMaxCalls /\ lock(1, from_millis(LongTtl))
    \/ AllIdle /\ calls < SeqMaxCalls /\ unlock(1)
    \/ \E t \in Ttls : AllIdle /\ calls < SeqMaxCalls /\ lock(2, from_millis(t))
    \/ \E m \in Managers : AllIdle /\ calls < SeqMaxCalls /\ Continue(m)
    \/ \E m \in Managers : Return(m)
    \/ \E m \in Managers : AllIdle /\ drop(m)
    \/ \E m \in Managers, s \in Servers : FanOut(m, s)
    \/ \E m \in Managers : Decide(m)
    \/ \E m \in Managers, s \in Servers : Rollback(m, s)
    \/ \E m \in Managers : Backoff(m)
    \/ \E m \in Managers : Wake(m)
    \/ \E m \in Managers, s \in Servers : Unlock(m, s)
    \/ \E m \in Managers : Unlocked(m)

GuardSpec == (\E tokio \in BOOLEAN : InitBuild(1, 1, tokio)) /\ [][GuardNext]_vars

\* The same callers, with servers that answer every command, futures that are
\* polled to their end and a clock that goes on: every step of a call that can
\* be taken is taken.
RetryFair ==
    /\ WF_vars(TickTo(MaxTime))
    /\ \A m \in Managers :
          /\ WF_vars(\E s \in Servers : FanOut(m, s))
          /\ WF_vars(Decide(m))
          /\ WF_vars(\E s \in Servers : Rollback(m, s))
          /\ WF_vars(Backoff(m))
          /\ WF_vars(Wake(m))

FairRetrySpec == RetrySpec /\ RetryFair

\* The caller of the second manager gives it a retry policy before its first
\* call, also one with no attempt or with no delay, and then calls
\* acquire_no_guard with a ttl of ShortTtl, of drift(ShortTtl), which is its
\* own drift, or of LongTtl; the caller of the first manager takes locks of
\* LongTtl.  One call is made after the other.
LoopTtls == {from_millis(ShortTtl), from_millis(drift(ShortTtl)), from_millis(LongTtl)}

LoopNext ==
    \/ TickTo(MaxTime)
    \/ \E count \in 0..MaxRetryCount, delay \in 0..MaxRetryDelay :
          calls = 0 /\ set_retry(2, count, from_millis(delay))
    \/ AllIdle /\ calls < SeqMaxCalls /\ lock(1, from_millis(LongTtl))
    \/ \E d \in LoopTtls : AllIdle /\ calls < SeqMaxCalls /\ acquire_no_guard(2, d)
    \/ \E m \in Managers : AllIdle /\ calls < SeqMaxCalls /\ Continue(m)
    \/ \E m \in Managers : Return(m)
    \/ \E m \in Managers, s \in Servers : FanOut(m, s)
    \/ \E m \in Managers : Decide(m)
    \/ \E m \in Managers, s \in Servers : Rollback(m, s)
    \/ \E m \in Managers : Backoff(m)
    \/ \E m \in Managers : Wake(m)

LoopSpec == InitWith(1, 1) /\ [][LoopNext]_vars

\* The validity computation alone: one attempt of a lock call, its fan-out
\* begun at time 0 and over at time el with cnt servers having answered true
\* (the others refused the connection), and then the rest of the attempt.
ProbeTtls ==
    (1..MaxProbeTtl)
        \cup {100 * k + d - 1 : k \in 1..MaxProbeHundreds, d \in 0..2}
        \cup {2^24 + d : d \in 0..MaxProbeBig}

ProbeElapsed ==
    {1000 * k + d : k \in 0..MaxProbeSecs, d \in 0..MaxProbeMillis}
        \cup {1000 * k + 999 : k \in 0..MaxProbeSecs}

ValidityInit ==
    \E t \in ProbeTtls, el \in ProbeElapsed, cnt \in 0..NumServers :
        /\ now = el
        /\ store = [s \in Servers |->
                      IF s <= cnt THEN Purge([val |-> 1, exp |-> t], el) ELSE NoKey]
        /\ down = {s \in Servers : s > cnt}
        /\ faults = NumServers - cnt
        /\ next_id = 1
        /\ calls = 1
        /\ retry_count = [m \in Managers |-> 1]
        /\ retry_delay = [m \in Managers |-> from_millis(1)]
        /\ call = [m \in Managers |->
                     IF m = 1
                     THEN [pc |-> "fanout", op |-> "lock", val |-> 1, ttl |-> t,
                           start_time |-> 0, pending |-> {}, conn |-> {}, n |-> cnt,
                           attempt |-> 0,
                           wake |-> 0, seq |-> 1, had |-> 0, free |-> TRUE,
                           refused |-> {s \in Servers : s > cnt}]
                     ELSE Idle]
        /\ res = [m \in Managers |-> "None"]
        /\ held = [m \in Managers |-> NoLock]
        /\ task = [m \in Managers |-> NoTask]
        /\ tokio_comp = FALSE

ValidityNext == \E m \in Managers : Decide(m)

ValiditySpec == ValidityInit /\ [][ValidityNext]_vars

\* ------------------------------------------------------------------ claims

\* Manager m holds a descriptor that it has not released and whose validity
\* window, counted from the moment the call returned it, has not run out.
Holds(m) ==
    /\ WindowOpen(held[m])
    /\ \A i \in 1..Len(held[m].uses) : held[m].uses[i].op # "unlock"

\* C1: mutual exclusion.  With one clock for all (no drift) and every server
\* reachable and keeping its keys until their TTL, two different managers
\* never both hold a descriptor for the resource whose validity window is
\* still open, whatever lock, extend and unlock calls they make.
C1_MutualExclusion == \A a, b \in Managers : a # b => ~(Holds(a) /\ Holds(b))

\* Manager m takes the step in which a try_release (of unlock or of the
\* rollback) or a try_extend with m's value runs on server s.
ReleaseStep(m, s) == Unlock(m, s) \/ Rollback(m, s)

ExtendStep(m, s) == call[m].op = "extend" /\ FanOut(m, s)

\* The state of the stale holder: m has sent its release to every server, and
\* a server still holds the key with another client's value.
C2_StaleReleaseDone ==
    \E m \in Managers, s \in Servers :
        /\ call[m].pc = "unlock"
        /\ call[m].pending = {}
        /\ store[s].val # NoValue
        /\ store[s].val # call[m].val

\* C2: stale-holder protection.  A try_release or try_extend with value v
\* leaves the key of a server untouched (not deleted, not overwritten, not
\* re-expired, not created) when the server does not hold the value v; and
\* try_release returns true exactly when the stored value was v and the key
\* has been deleted.
C2_StaleHolderProtection ==
    [][\A m \in Managers, s \in Servers :
          /\ (ReleaseStep(m, s) \/ ExtendStep(m, s)) =>
                (store[s].val # call[m].val => store'[s] = store[s])
          /\ ReleaseStep(m, s) =>
                (unlock_instance(store[s], call[m].val, Reaches(m, s)).ok
                    <=> (store[s].val = call[m].val /\ store'[s] = NoKey))]_vars

\* Manager b's call of lock returns in this step.
LockReturns(b) == call[b].op = "lock" /\ call[b].pc # "idle" /\ call'[b].pc = "idle"

\* Manager a's lock was returned before call number n was made, a has passed it
\* to no call since, and its validity window is open.
StillValid(a, n) ==
    /\ WindowOpen(held[a])
    /\ held[a].uses = <<>>
    /\ held[a].ret < n

\* a holds a valid lock, and b, which never held one, has called lock and got
\* Unavailable.
C3_ContenderFailed ==
    \E a, b \in Managers :
        /\ a # b
        /\ StillValid(a, 2)
        /\ held[b] = NoLock
        /\ calls = 2
        /\ call[b].pc = "idle"
        /\ res[b] = "Unavailable"

\* C3 as stated: while a's lock is still valid, a lock call of another manager
\* b returns Unavailable.
C3_ContentionUnavailable ==
    [][\A a, b \in Managers :
          (a # b /\ LockReturns(b) /\ StillValid(a, call[b].seq))
              => res'[b] = "Unavailable"]_vars

\* C3: contention outcome.  While a's lock is still valid, a lock call of
\* another manager b returns no lock: it fails with Unavailable, or with
\* TtlExceeded when its own TTL is not larger than drift plus elapsed time.
C3_ContentionFails ==
    [][\A a, b \in Managers :
          (a # b /\ LockReturns(b) /\ StillValid(a, call[b].seq))
              => /\ res'[b] \in {"Unavailable", "TtlExceeded"}
                 /\ res'[b] = "TtlExceeded"
                       => call[b].ttl <= drift(call[b].ttl) + (now - call[b].start_time)
                 /\ held'[b] = held[b]]_vars

\* A lock has been returned to a manager while a server holds the key with
\* another client's value: the manager had a bare majority.
C4_BareMajority ==
    \E m \in Managers, s \in Servers :
        /\ res[m] = "Ok"
        /\ call[m].pc = "idle"
        /\ Holders(held[m].val) = (NumServers \div 2) + 1
        /\ store[s].val # NoValue
        /\ store[s].val # held[m].val

\* C4: quorum gate.  A call of lock or extend returns a descriptor from an
\* attempt only when every server has answered that attempt and at least
\* floor(N/2) + 1 of the N servers answered true.
C4_QuorumGate ==
    [][\A m \in Managers :
          (Decide(m) /\ res'[m] = "Ok")
              => /\ call[m].pending = {}
                 /\ call[m].n >= (NumServers \div 2) + 1
                 /\ call[m].n <= Holders(call[m].val)]_vars

\* A descriptor with the smallest validity, returned after a fan-out that took
\* time.
C5_SmallestValidity ==
    \E m \in Managers :
        /\ res[m] = "Ok"
        /\ held[m].validity_time = 1
        /\ held[m].at > 0

\* C5: validity bounds.  Every descriptor returned by lock or extend for a TTL
\* of ttl ms has 0 < validity_time < ttl, whatever the TTL and however long
\* the fan-out took.
C5_ValidityBounds ==
    \A m \in Managers :
        held[m] # NoLock =>
            (0 < held[m].validity_time /\ held[m].validity_time < held[m].ttl)

\* C6: validity computation.  The validity_time of a successful attempt is
\* ttl - drift - elapsed with drift = floor(ttl * 0.01) + 2 and elapsed the
\* whole milliseconds from the attempt's start_time to the end of its fan-out.
C6_ValidityFormula ==
    [][\A m \in Managers :
          (Decide(m) /\ res'[m] = "Ok")
              => held'[m].validity_time
                    = call[m].ttl - ((call[m].ttl \div 100) + 2)
                                  - (now - call[m].start_time)]_vars

\* The first attempt of b's call of lock is decided in this step.
FirstAttempt(b) == Decide(b) /\ call[b].op = "lock" /\ call[b].attempt = 0

\* The TTL of b's call is larger than drift plus the time its fan-out took.
TtlSuffices(b) == call[b].ttl > drift(call[b].ttl) + (now - call[b].start_time)

\* a's descriptor has been passed to unlock, and that call is over.
ReleaseDone(a) ==
    \E i \in 1..Len(held[a].uses) :
        /\ held[a].uses[i].op = "unlock"
        /\ ~(call[a].pc = "unlock" /\ call[a].seq = held[a].uses[i].seq)

\* a acquired the lock and then released it (before it ran out, or as its very
\* next call); the release was call number n.
AcquiredThenReleased(a, n) ==
    /\ Len(held[a].uses) = 1
    /\ held[a].uses[1].op = "unlock"
    /\ held[a].uses[1].seq = n
    /\ (held[a].uses[1].live \/ held[a].seq = n - 1)

\* a released its lock while it was valid, and the next call, b's lock, has
\* returned a lock before a's lock would have run out.
C7_ReacquiredAfterRelease ==
    \E a, b \in Managers :
        /\ a # b
        /\ AcquiredThenReleased(a, held[b].seq - 1)
        /\ held[a].uses[1].live
        /\ now - held[a].at < held[a].validity_time
        /\ res[b] = "Ok"
        /\ held[b].by = "lock"

\* C7: release frees the resource.  Once a release has completed (every server
\* reachable), no server holds the key with the released value; and after
\* acquire and release the first attempt of the next lock call, by whichever
\* manager, succeeds when its TTL is larger than drift plus elapsed time.
C7_ReleaseFrees ==
    [][/\ \A a \in Managers :
            (ReleaseDone(a) /\ down = {}) => Holders(held[a].val) = 0
       /\ \A a, b \in Managers :
            (FirstAttempt(b) /\ AcquiredThenReleased(a, call[b].seq - 1) /\ TtlSuffices(b))
                => (res'[b] = "Ok" /\ held'[b].val = call[b].val)]_vars

\* Manager a's descriptor, passed to no call since it was returned, is the last
\* that a successful lock or extend returned before call number n, and no call
\* was made in between.
LastAcquired(a, n) ==
    /\ held[a] # NoLock
    /\ held[a].uses = <<>>
    /\ held[a].seq = n - 1

\* More than the TTL has passed since a's descriptor was returned.
RunOut(a, t) == t - held[a].at > held[a].ttl

\* b's call of lock, the first call after a's lock ran out, began when more
\* than the TTL had passed.
AfterExpiry(a, b) ==
    /\ a # b
    /\ FirstAttempt(b)
    /\ LastAcquired(a, call[b].seq)
    /\ RunOut(a, call[b].start_time)

\* a's lock has run out, and the next call, b's lock, has returned a lock.
C8_ReacquiredAfterExpiry ==
    \E a, b \in Managers :
        /\ a # b
        /\ LastAcquired(a, held[b].seq)
        /\ RunOut(a, held[b].from)
        /\ res[b] = "Ok"
        /\ held[b].by = "lock"

\* C8 as stated: once more than ttl has passed since the last successful lock
\* or extend, no server holds the key, and a lock call of another manager
\* succeeds.
C8_ExpiryFreesAnyTtl ==
    [][/\ \A a \in Managers :
            (held[a] # NoLock /\ held[a].uses = <<>> /\ RunOut(a, now))
                => Holders(held[a].val) = 0
       /\ \A a, b \in Managers :
            AfterExpiry(a, b) => res'[b] = "Ok"]_vars

\* C8: expiry frees the resource.  Once more than ttl has passed since the
\* last successful lock or extend of a lock that is never released, no server
\* holds the key; a lock call of another manager then succeeds when its TTL is
\* larger than drift plus elapsed time, and fails with TtlExceeded otherwise.
C8_ExpiryFrees ==
    [][/\ \A a \in Managers :
            (held[a] # NoLock /\ held[a].uses = <<>> /\ RunOut(a, now))
                => Holders(held[a].val) = 0
       /\ \A a, b \in Managers :
            AfterExpiry(a, b)
                => /\ TtlSuffices(b) => (res'[b] = "Ok" /\ held'[b].val = call[b].val)
                   /\ ~TtlSuffices(b) => res'[b] = "TtlExceeded"]_vars

\* a's descriptor comes from a successful extend that returned before call
\* number n was made, and a has passed it to no call since.
Extended(a, n) ==
    /\ held[a].by = "extend"
    /\ held[a].uses = <<>>
    /\ held[a].ret < n

\* a has extended its lock at a time later than 0, and b, which never held a
\* lock, has called lock and failed at the last moment of the new TTL.
C9_ContenderFailedAfterExtend ==
    \E a, b \in Managers :
        /\ a # b
        /\ Extended(a, calls)
        /\ held[a].from > 0
        /\ now = held[a].from + held[a].ttl
        /\ Holders(held[a].val) >= quorum
        /\ held[b] = NoLock
        /\ call[b].pc = "idle"
        /\ res[b] = "Unavailable"

\* C9 as stated, t being the time the extend returned: a lock call of a
\* contender made before t + ttl fails.
C9_ExtendBlocksUntilReturnPlusTtl ==
    [][\A a, b \in Managers :
          (/\ a # b
           /\ FirstAttempt(b)
           /\ Extended(a, call[b].seq)
           /\ call[b].start_time < held[a].at + held[a].ttl)
              => res'[b] # "Ok"]_vars

\* C9: extend prolongs ownership.  A successful extend returns a descriptor
\* with the value unchanged; from then until ttl after the start of its
\* fan-out a quorum of servers holds the key with that value, and an attempt
\* of a contender's lock call whose fan-out is over by then returns no lock.
C9_ExtendProlongs ==
    [][/\ \A a \in Managers :
            (Decide(a) /\ call[a].op = "extend" /\ res'[a] = "Ok")
                => held'[a].val = held[a].val
       /\ \A a \in Managers :
            (Extended(a, calls + 1) /\ now <= held[a].from + held[a].ttl)
                => Holders(held[a].val) >= (NumServers \div 2) + 1
       /\ \A a, b \in Managers :
            (/\ a # b
             /\ Decide(b)
             /\ call[b].op = "lock"
             /\ Extended(a, call[b].seq)
             /\ now <= held[a].from + held[a].ttl)
                => (res'[b] # "Ok" /\ held'[b] = held[b])]_vars

\* m's call of extend returns in this step.
ExtendReturns(m) == call[m].op = "extend" /\ call[m].pc # "idle" /\ call'[m].pc = "idle"

\* Fewer than a quorum of servers held the value when m's call was made.
LostLock(m) == call[m].had < (NumServers \div 2) + 1

\* m has released its lock, passed it to extend, and got Unavailable.
C10_ExtendAfterReleaseFailed ==
    \E m \in Managers :
        /\ Len(held[m].uses) = 2
        /\ held[m].uses[1].op = "unlock"
        /\ held[m].uses[1].live
        /\ held[m].uses[2].op = "extend"
        /\ call[m].pc = "idle"
        /\ res[m] = "Unavailable"

\* C10 as stated: extend fails with Unavailable whenever fewer than a quorum
\* of servers hold the lock's value.
C10_LostExtendUnavailable ==
    [][\A m \in Managers :
          (ExtendReturns(m) /\ LostLock(m)) => res'[m] = "Unavailable"]_vars

\* C10: extend of a lost lock fails.  When fewer than a quorum of servers hold
\* the lock's value, extend returns no descriptor: it fails with Unavailable,
\* or with TtlExceeded when the TTL asked for is not larger than drift plus
\* elapsed time.
C10_LostExtendFails ==
    [][\A m \in Managers :
          (ExtendReturns(m) /\ LostLock(m))
              => /\ res'[m] \in {"Unavailable", "TtlExceeded"}
                 /\ res'[m] = "TtlExceeded"
                       => call[m].ttl <= drift(call[m].ttl) + (now - call[m].start_time)
                 /\ held'[m] = held[m]]_vars

\* The caller of m does a step of its acquire or acquire_no_guard after a call
\* of lock has returned.
LoopStep(m) ==
    /\ Looping(m)
    /\ call[m].pc = "idle"
    /\ task'[m] # task[m] \/ call'[m] # call[m]

\* Witness of C11: an acquire_no_guard has returned a lock after at least one
\* call of lock that failed.
C11_AcquiredAfterRetry ==
    \E m \in Managers :
        /\ task[m].op = "acquire_no_guard"
        /\ task[m].out = "Ok"
        /\ Len(task[m].rets) >= 2

\* C11: acquire_no_guard (and the acquire that awaits it) returns only a lock
\* or TtlTooLarge, never Unavailable or TtlExceeded; after a call of lock that
\* returned another error its next step is a new call of lock with the same
\* ttl; and the lock it returns is that of the first call of lock that
\* returned one, which is the last call the loop made.
C11_BlockingReturnsLockOrTtlTooLarge ==
    /\ [](\A m \in Managers :
            /\ task[m].out \in {"None", "Ok", "TtlTooLarge"}
            /\ \A i \in 1..(Len(task[m].rets) - 1) :
                  task[m].rets[i] \in {"Unavailable", "TtlExceeded"})
    /\ [][\A m \in Managers :
            LoopStep(m) =>
               CASE res[m] = "Ok" ->
                      /\ task'[m].out = "Ok"
                      /\ held'[m] = held[m]
                      /\ held[m].by = "lock" /\ held[m].seq = task[m].last
                 [] res[m] = "TtlTooLarge" ->
                      /\ task'[m].out = "TtlTooLarge"
                      /\ call'[m] = call[m]
                 [] OTHER ->
                      /\ res[m] \in {"Unavailable", "TtlExceeded"}
                      /\ Looping(m)'
                      /\ calls' = calls + 1
                      /\ task'[m].ttl = task[m].ttl
                      /\ \/ call'[m].pc = "fanout" /\ call'[m].op = "lock"
                         \/ res'[m] = "TtlTooLarge"]_vars

\* The fan-out of m's attempt is over, and the call goes on in this step.
FanOutOver(m) == call[m].pc = "fanout" /\ call[m].pending = {} /\ call'[m] # call[m]

\* Witness of C12: the first manager, with the retry policy (10, 10 ms), has
\* made the first call, a lock, and got TtlExceeded from its first attempt
\* although a quorum of servers had set the key.
C12_TtlExceededWithQuorum ==
    /\ retry_count[1] = TestRetryCount
    /\ retry_delay[1] = from_millis(TestRetryDelay)
    /\ calls = 1
    /\ next_id = 1
    /\ call[1].pc = "idle"
    /\ res[1] = "TtlExceeded"
    /\ Holders(next_id) >= quorum

\* C12: when the fan-out of an attempt of lock or extend is over and the ttl is
\* at most ttl / 100 + 2 (the drift) plus the ms elapsed since the attempt's
\* start, the call returns TtlExceeded, whatever the count of servers that
\* answered true and the number of attempts left; and a lock of 1 ms by a
\* manager with the retry policy (10, 10 ms) returns TtlExceeded.
C12_TtlExceeded ==
    [][\A m \in Managers :
          /\ (/\ FanOutOver(m)
              /\ call[m].ttl <= (call[m].ttl \div 100) + 2 + (now - call[m].start_time))
                => (res'[m] = "TtlExceeded" /\ call'[m] = Idle)
          /\ (/\ LockReturns(m)
              /\ call[m].ttl = ShortTtl
              /\ retry_count[m] = TestRetryCount
              /\ retry_delay[m] = from_millis(TestRetryDelay))
                => (res'[m] = "TtlExceeded" /\ call[m].attempt = 0)]_vars

\* Witness of C13: a manager whose lock is on a quorum of servers has called
\* extend with a too large ttl and got TtlTooLarge.
C13_ExtendTtlTooLarge ==
    \E m \in Managers :
        /\ call[m].pc = "idle"
        /\ res[m] = "TtlTooLarge"
        /\ Len(held[m].uses) = 1
        /\ held[m].uses[1].op = "extend"
        /\ Holders(held[m].val) >= quorum

\* C13: a ttl of u64::MAX ms is converted, and a call of lock or extend with a
\* ttl of one ms more, or of u64::MAX seconds, returns TtlTooLarge in the step
\* of the call, before any command to a server: no fan-out is begun and every
\* server's key is as it was.
C13_TtlTooLargeBeforeIO ==
    /\ [](TryInto(as_millis(LargestTtl)).ok)
    /\ [][\A m \in Managers, d \in {TooLargeTtl, SecsMax} :
            (lock(m, d) \/ extend(m, d))
                => /\ res'[m] = "TtlTooLarge"
                   /\ call'[m] = Idle
                   /\ store' = store]_vars

\* Witness of C14: an unlock has returned while an unreachable server still
\* holds the key with the lock's value.
C14_ReleasedButKept ==
    \E m \in Managers, s \in down :
        /\ call[m].pc = "idle"
        /\ res[m] = "Unit"
        /\ store[s].val = held[m].val

\* C14: unlock begins with an unlock_instance pending for every server; each
\* of them leaves the server's key as it was when the key is absent, holds
\* another value or the server refuses the connection, and leaves the call
\* without a result; and when all have run, unlock returns (), whatever they
\* did.
C14_ReleaseBestEffort ==
    [][\A m \in Managers :
          /\ unlock(m) => (call'[m].pending = Servers /\ res'[m] = "None")
          /\ \A s \in Servers :
                Unlock(m, s)
                    => /\ (store[s].val # call[m].val \/ ~Reaches(m, s))
                             => store'[s] = store[s]
                       /\ res'[m] = "None"
                       /\ call'[m].pc = "unlock"
          /\ (call[m].pc = "unlock" /\ call'[m].pc # "unlock")
                => (call[m].pending = {} /\ call'[m] = Idle /\ res'[m] = "Unit")]_vars

\* Witness of C15: a manager with a retry count of 0 has called extend with a
\* Lock that is on every server, and got Unavailable.
C15_ExtendWithoutAttempt ==
    \E m \in Managers :
        /\ retry_count[m] = 0
        /\ call[m].pc = "idle"
        /\ res[m] = "Unavailable"
        /\ Len(held[m].uses) = 1
        /\ held[m].uses[1].op = "extend"
        /\ Holders(held[m].val) = NumServers

\* C15: with a retry count of 0, a call of lock or extend returns Unavailable
\* in the step of the call: no fan-out and no rollback is begun, every
\* server's key is as it was, and no time has passed.
C15_RetryCountZero ==
    [][\A m \in Managers, t \in Ttls :
          (retry_count[m] = 0 /\ (lock(m, from_millis(t)) \/ extend(m, from_millis(t))))
              => /\ res'[m] = "Unavailable"
                 /\ call'[m] = Idle
                 /\ store' = store
                 /\ now' = now]_vars

\* C16 as stated: with a retry delay of 0, the step after the rollback of a
\* failed attempt is a sleep of 0 ms, and the call never faults.
C16_ZeroDelayProceeds ==
    /\ [](\A m \in Managers : retry_delay[m] = from_millis(0) => call[m].pc # "panicked")
    /\ [][\A m \in Managers :
            (/\ retry_delay[m] = from_millis(0)
             /\ call[m].pc = "rollback"
             /\ call[m].pending = {}
             /\ call'[m] # call[m])
                => (call'[m].pc = "sleep" /\ call'[m].wake = now)]_vars

\* a's acquire returned a guard, a's caller has dropped it, and the unlock of
\* the drop was call number n.
GuardDropped(a, n) ==
    /\ task[a].op = "acquire"
    /\ task[a].out = "Ok"
    /\ ~task[a].guard
    /\ held[a].seq = task[a].last
    /\ AcquiredThenReleased(a, n)

\* Witness of C17: a's guard was dropped in a build with the Drop impl, and
\* the next call, b's lock, has returned a lock before a's lock would have run
\* out.
C17_ReacquiredAfterDrop ==
    \E a, b \in Managers :
        /\ a # b
        /\ ~tokio_comp
        /\ GuardDropped(a, held[b].seq - 1)
        /\ now - held[a].at < held[a].validity_time
        /\ res[b] = "Ok"
        /\ held[b].by = "lock"

\* acquire returns what the loop of acquire_no_guard returns, a guard with the
\* lock of the loop's last call of lock (the first that returned one) or
\* TtlTooLarge; and in a build with the Drop impl the drop of the guard is an
\* unlock of the guard's lock on every server.
GuardScopes(m) ==
    /\ (task[m].op = "acquire" /\ LoopStep(m) /\ MatchReturns(res[m]))
          => /\ task'[m].out = res[m]
             /\ task'[m].guard = (res[m] = "Ok")
             /\ res[m] = "Ok" => task'[m].lock = held[m]
             /\ \A i \in 1..Len(task[m].rets) :
                   task[m].rets[i] \in {"Unavailable", "TtlExceeded"}
             /\ res[m] = "Ok" => (held[m].by = "lock" /\ held[m].seq = task[m].last)
             /\ held'[m] = held[m]
    /\ (task[m].guard /\ ~task'[m].guard /\ ~tokio_comp)
          => /\ call'[m].pc = "unlock"
             /\ call'[m].val = task[m].lock.val
             /\ call'[m].pending = Servers

\* Witness of the short ttl after a drop: a's guard was dropped in a build
\* with the Drop impl, and the next call, b's lock of ShortTtl, has set the
\* key on every server and returned TtlExceeded.
C17_ShortTtlAfterDrop ==
    \E a, b \in Managers :
        /\ a # b
        /\ ~tokio_comp
        /\ GuardDropped(a, calls - 1)
        /\ call[b].pc = "idle"
        /\ res[b] = "TtlExceeded"
        /\ Holders(next_id) = NumServers

\* C17 as stated: acquire returns a guard with the lock of acquire_no_guard,
\* the drop of the guard is an unlock of that lock on every server, and the
\* first attempt of the next call of lock after it, by another manager,
\* returns a lock.
C17_ScopedAcquireAnyTtl ==
    [][\A m \in Managers :
          /\ GuardScopes(m)
          /\ \A b \in Managers :
                (m # b /\ FirstAttempt(b) /\ GuardDropped(m, call[b].seq - 1))
                    => (res'[b] = "Ok" /\ held'[b].val = call[b].val)]_vars

\* C17: scoped acquire.  acquire returns a guard with the lock of
\* acquire_no_guard (or TtlTooLarge); in a build with the Drop impl the drop
\* of the guard is an unlock of that lock on every server; and the first
\* attempt of the next call of lock after it, by another manager, returns a
\* lock when its ttl is larger than drift plus elapsed time, and TtlExceeded
\* when it is not.
C17_ScopedAcquire ==
    [][\A m \in Managers :
          /\ GuardScopes(m)
          /\ \A b \in Managers :
                (m # b /\ FirstAttempt(b) /\ GuardDropped(m, call[b].seq - 1))
                    => IF TtlSuffices(b)
                       THEN res'[b] = "Ok" /\ held'[b].val = call[b].val
                       ELSE res'[b] = "TtlExceeded"]_vars

\* The rollback of m's attempt, once begun, is an unlock_instance with the
\* call's value on every server, it is over before the sleep begins, and the
\* next fan-out begins after the sleep.
RollbackOrder(m) ==
    /\ \A s \in Servers :
          (call[m].pc = "rollback" /\ s \in call[m].pending /\ s \notin call'[m].pending)
              => store'[s].val # call[m].val
    /\ (call[m].pc = "rollback" /\ call'[m].pc # "rollback")
          => (call[m].pending = {} /\ call'[m].pc = "sleep")
    /\ (call[m].pc # "sleep" /\ call'[m].pc = "sleep") => call[m].pc = "rollback"
    /\ (call[m].pc # "idle" /\ call'[m].pc = "fanout" /\ call'[m].attempt # call[m].attempt)
          => call[m].pc = "sleep"

\* m's call of lock or extend, which made an attempt, returns Unavailable in
\* this step, and no server is unreachable.
ReturnsUnavailable(m) ==
    /\ call[m].op \in {"lock", "extend"}
    /\ call[m].pc # "idle"
    /\ call'[m].pc = "idle"
    /\ res'[m] = "Unavailable"
    /\ down = {}

\* Witness of C18: the second attempt of a call, made after the first one's
\* rollback and sleep, has set the key on a server and ended without quorum,
\* its rollback is over and the call sleeps; no server holds the key with the
\* call's value.
C18_RolledBackPartial ==
    \E m \in Managers :
        /\ call[m].pc = "sleep"
        /\ call[m].attempt >= 1
        /\ call[m].n >= 1
        /\ down = {}
        /\ Holders(call[m].val) = 0

\* C18 as stated: whenever the fan-out of an attempt is over and fewer than
\* quorum servers answered true, a rollback on every server begins.
C18_RollbackWhenNoQuorum ==
    [][\A m \in Managers :
          /\ (FanOutOver(m) /\ call[m].n < quorum)
                => (call'[m].pc = "rollback" /\ call'[m].pending = Servers)
          /\ RollbackOrder(m)
          /\ ReturnsUnavailable(m) => \A s \in Servers : store'[s].val # call[m].val]_vars

\* C18: rollback of a failed attempt.  Whenever the fan-out of an attempt is
\* over, the ttl is larger than drift plus elapsed time and fewer than quorum
\* servers answered true, a rollback begins: an unlock_instance with the
\* call's value on every server, all of them over before the sleep, which is
\* over before the next fan-out; and when a call that made an attempt returns
\* Unavailable with every server reachable, no server holds the key with the
\* call's value.
C18_RollbackBeforeBackoff ==
    [][\A m \in Managers :
          /\ (/\ FanOutOver(m)
              /\ call[m].n < quorum
              /\ call[m].ttl > (call[m].ttl \div 100) + 2 + (now - call[m].start_time))
                => (call'[m].pc = "rollback" /\ call'[m].pending = Servers)
          /\ RollbackOrder(m)
          /\ ReturnsUnavailable(m) => \A s \in Servers : store'[s].val # call[m].val]_vars

\* C19 as stated: a call of lock or extend makes at most retry_count
\* fan-outs; an attempt that reaches quorum is its last; when the attempts are
\* used up without quorum it returns Unavailable; and every call returns.
C19_BoundedRetry ==
    /\ [](\A m \in Managers :
            call[m].pc \in {"fanout", "rollback", "sleep"}
                => call[m].attempt < retry_count[m])
    /\ [][\A m \in Managers :
            /\ (FanOutOver(m) /\ call[m].n >= quorum) => call'[m].pc = "idle"
            /\ (call[m].pc \in {"rollback", "sleep"} /\ call'[m].pc \notin {"rollback", "sleep"})
                  => \/ (call'[m].pc = "fanout" /\ call'[m].attempt = call[m].attempt + 1)
                     \/ (/\ call'[m].pc = "idle"
                         /\ res'[m] = "Unavailable"
                         /\ call[m].attempt + 1 = retry_count[m])]_vars
    /\ \A m \in Managers : (call[m].pc # "idle") ~> (call[m].pc = "idle")

\* The servers that are a majority, and those that are fewer than
\* N - quorum + 1.
Majority(set) == Cardinality(set) >= quorum
Minority(set) == Cardinality(set) < NumServers - quorum + 1

\* The results a call can have.
Results == {"None", "Ok", "Unavailable", "TtlExceeded", "TtlTooLarge", "Unit"}

\* A server that refuses the connection when its future of the fan-out runs
\* is a false for that server: the count n and every key stay as they are,
\* and the call goes on with the other servers.
RefusalIsLocal(m) ==
    \A s \in Servers :
        (FanOut(m, s) /\ ~Reaches(m, s))
            => /\ call'[m].n = call[m].n
               /\ store' = store
               /\ call'[m].pc = "fanout"
               /\ res'[m] = "None"

\* Witness of C20: a lock call has returned a lock although a server was
\* unreachable; that server has no key, the other two hold the lock's value.
C20_LockedDespiteFailure ==
    \E m \in Managers, s \in down :
        /\ call[m].pc = "idle"
        /\ res[m] = "Ok"
        /\ held[m].by = "lock"
        /\ held[m].uses = << >>
        /\ store[s] = NoKey
        /\ Holders(held[m].val) = NumServers - 1

\* C20 as stated: an unreachable server is a false for that server only, no
\* call returns an I/O error; a lock call on a free resource with a minority
\* of the servers refusing returns a lock, and a lock call with a majority
\* refusing returns Unavailable.
C20_FailuresLocalUnavailable ==
    /\ [](\A m \in Managers : res[m] \in Results)
    /\ [][\A m \in Managers :
            /\ RefusalIsLocal(m)
            /\ (LockReturns(m) /\ call[m].free /\ Minority(call[m].refused))
                  => res'[m] = "Ok"
            /\ (LockReturns(m) /\ Majority(call[m].refused))
                  => res'[m] = "Unavailable"]_vars

\* C20: per-store failures are local.  An unreachable server is a false for
\* that server only, and no call returns an I/O error; a lock call on a free
\* resource with a minority of the servers refusing returns a lock, and a
\* lock call with a majority refusing returns Unavailable, unless its ttl is
\* not larger than drift plus elapsed time: then it returns TtlExceeded.
C20_FailuresLocal ==
    /\ [](\A m \in Managers : res[m] \in Results)
    /\ [][\A m \in Managers :
            /\ RefusalIsLocal(m)
            /\ (LockReturns(m) /\ call[m].free /\ Minority(call[m].refused))
                  => IF call[m].pc = "fanout" /\ ~TtlSuffices(m)
                     THEN res'[m] = "TtlExceeded"
                     ELSE res'[m] = "Ok"
            /\ (LockReturns(m) /\ Majority(call[m].refused))
                  => IF call[m].pc = "fanout" /\ ~TtlSuffices(m)
                     THEN res'[m] = "TtlExceeded"
                     ELSE res'[m] = "Unavailable"]_vars

\* No call in progress has the value v and no caller has a Lock with it: no
\* unlock, extend or rollback can be made with v.
Orphan(v) == \A m \in Managers : call[m].val # v /\ held[m].val # v

\* The same, after the step.
OrphanNext(v) == \A m \in Managers : call'[m].val # v /\ held'[m].val # v

\* An attempt of m's lock returns TtlExceeded in this step.
ReturnsTtlExceeded(m) ==
    /\ call[m].pc = "fanout"
    /\ call[m].op = "lock"
    /\ call'[m].pc = "idle"
    /\ res'[m] = "TtlExceeded"

\* One server's future of the fan-out of b's lock runs on s in this step.
LockInstanceStep(b, s) ==
    /\ call[b].pc = "fanout"
    /\ call[b].op = "lock"
    /\ s \in call[b].pending
    /\ s \notin call'[b].pending

\* Witness of C21: a lock of a manager that never had a Lock has returned
\* TtlExceeded, every server holds the key with a value that no call and no
\* caller has, and the fan-out of the other manager's lock is over with no
\* server having answered true.
C21_KeysLeftBlockContender ==
    \E a, b \in Managers, v \in 1..next_id :
        /\ a # b
        /\ call[a].pc = "idle"
        /\ res[a] = "TtlExceeded"
        /\ held[a] = NoLock
        /\ Orphan(v)
        /\ Holders(v) = NumServers
        /\ call[b].pc = "fanout"
        /\ call[b].op = "lock"
        /\ call[b].pending = {}
        /\ call[b].n = 0

\* C21: no rollback on TtlExceeded.  The step in which an attempt of lock
\* returns TtlExceeded follows the fan-out at once (no rollback in between),
\* leaves every server's key as it is, whatever the count of servers that set
\* it, and hands the value to nobody.  From then on a server that holds the
\* key with that value keeps it until the key's TTL has run out, and a
\* lock_instance of another call on such a server returns false and leaves
\* the key alone.
C21_NoRollbackOnTtlExceeded ==
    [][/\ \A m \in Managers :
             ReturnsTtlExceeded(m)
                 => /\ store' = store
                    /\ held' = held
                    /\ call'[m] = Idle
                    /\ OrphanNext(call[m].val)
       /\ \A s \in Servers :
             (store[s].val # NoValue /\ Orphan(store[s].val))
                 => /\ OrphanNext(store[s].val)
                    /\ \/ store'[s] = store[s]
                       \/ (store'[s] = NoKey /\ now' > store[s].exp)
                    /\ \A b \in Managers :
                          LockInstanceStep(b, s) => call'[b].n = call[b].n]_vars

\* The rollback of m's extend and its return: the rollback begins with every
\* server to be called and the value of the caller's Lock, each of its
\* unlock_instance leaves a reachable server without the key of that value,
\* and when the call, having made an attempt, returns Unavailable, the caller
\* still has the Lock and no reachable server holds the key with its value.
ExtendReleases(m) ==
    /\ (call[m].pc = "fanout" /\ call[m].op = "extend" /\ call'[m].pc = "rollback")
          => (call'[m].pending = Servers /\ call'[m].val = held[m].val)
    /\ \A s \in Servers \ down :
          (/\ call[m].pc = "rollback"
           /\ call[m].op = "extend"
           /\ s \in call[m].pending
           /\ s \notin call'[m].pending)
              => store'[s].val # held[m].val
    /\ (/\ call[m].op = "extend"
        /\ call[m].pc # "idle"
        /\ call'[m].pc = "idle"
        /\ res'[m] = "Unavailable")
          => /\ held'[m] = held[m]
             /\ held[m].val = call[m].val
             /\ \A s \in Servers \ down : store'[s].val # held[m].val

\* Witness of C22: an extend found the key with its Lock's value on fewer
\* than quorum servers, each of them extended it, the attempt ended without
\* quorum and its rollback is over: no server holds the key with that value.
C22_MinorityReleased ==
    \E m \in Managers :
        /\ call[m].pc = "sleep"
        /\ call[m].op = "extend"
        /\ call[m].had >= 1
        /\ call[m].had < quorum
        /\ call[m].n = call[m].had
        /\ held[m].val = call[m].val
        /\ Holders(held[m].val) = 0

\* C22 as stated: whenever the fan-out of an attempt of extend is over and
\* fewer than quorum servers answered true, the rollback begins.
C22_FailedExtendRollsBack ==
    [][\A m \in Managers :
          /\ (FanOutOver(m) /\ call[m].op = "extend" /\ call[m].n < quorum)
                => call'[m].pc = "rollback"
          /\ ExtendReleases(m)]_vars

\* C22: a failed extend releases the lock.  Whenever the fan-out of an attempt
\* of extend is over, the ttl is larger than drift plus elapsed time and fewer
\* than quorum servers answered true, the rollback begins: an unlock_instance
\* with the Lock's value on every server; and after the extend has returned
\* Unavailable no reachable server holds the key with that value, the servers
\* on which the extend had just succeeded included.
C22_FailedExtendReleases ==
    [][\A m \in Managers :
          /\ (/\ FanOutOver(m)
              /\ call[m].op = "extend"
              /\ call[m].n < quorum
              /\ call[m].ttl > (call[m].ttl \div 100) + 2 + (now - call[m].start_time))
                => call'[m].pc = "rollback"
          /\ ExtendReleases(m)]_vars

\* The ttl of m's acquire or acquire_no_guard in ms, as lock converts it.
LoopTtl(m) == TryInto(as_millis(task[m].ttl))

\* m's loop calls lock with a retry count of 0 and a ttl that converts.
LoopsWithoutAttempt(m) == Looping(m) /\ LoopTtl(m).ok /\ retry_count[m] = 0

\* m's loop calls lock with a ttl that is not larger than its drift, and makes
\* attempts.
LoopsWithinDrift(m) ==
    /\ Looping(m)
    /\ LoopTtl(m).ok
    /\ AsInt(LoopTtl(m).val) <= (AsInt(LoopTtl(m).val) \div 100) + 2
    /\ retry_count[m] >= 1

\* Every call of lock that m's loop has made returned r.
AllReturned(m, r) == \A i \in 1..Len(task[m].rets) : task[m].rets[i] = r

\* Witness of C23: an acquire_no_guard with a retry count of 0 is in its
\* third call of lock, the first two having returned Unavailable, and no
\* server has ever been given a key.
C23_LoopingWithoutAttempt ==
    \E m \in Managers :
        /\ LoopsWithoutAttempt(m)
        /\ task[m].op = "acquire_no_guard"
        /\ Len(task[m].rets) >= 2
        /\ res[m] = "Unavailable"
        /\ next_id = calls
        /\ \A s \in Servers : store[s] = NoKey

\* C23: acquire_no_guard can fail to terminate.  It returns only in a step
\* that follows a call of lock that returned a lock or TtlTooLarge; after
\* Unavailable or TtlExceeded its next step is a new call of lock with the
\* same ttl, and an attempt without quorum, which a lock_instance on a server
\* that holds a key does not count for, does not end it.  With a retry count
\* of 0 every call of lock returns Unavailable in the step that makes it, no
\* server being called, and with a ttl not larger than its drift every call
\* returns TtlExceeded: in both cases no step ends the loop.
C23_BlockingNeverReturns ==
    /\ [](\A m \in Managers :
            /\ LoopsWithoutAttempt(m)
                  => (call[m].pc = "idle" /\ res[m] = "Unavailable"
                      /\ AllReturned(m, "Unavailable"))
            /\ LoopsWithinDrift(m)
                  => (call[m].pc \in {"idle", "fanout"} /\ res[m] \in {"None", "TtlExceeded"}
                      /\ AllReturned(m, "TtlExceeded")))
    /\ [][\A m \in Managers :
            /\ (Looping(m) /\ ~Looping(m)')
                  => (call[m].pc = "idle" /\ res[m] \in {"Ok", "TtlTooLarge"})
            /\ (LoopsWithoutAttempt(m) \/ LoopsWithinDrift(m)) => Looping(m)'
            /\ (LoopStep(m) /\ res[m] \in {"Unavailable", "TtlExceeded"})
                  => /\ Looping(m)'
                     /\ calls' = calls + 1
                     /\ task'[m].ttl = task[m].ttl
                     /\ call'[m].pc = "fanout" \/ res'[m] = "Unavailable"
            /\ \A s \in Servers :
                  (Looping(m) /\ LockInstanceStep(m, s) /\ store[s].val # NoValue)
                      => call'[m].n = call[m].n
            /\ (Looping(m) /\ FanOutOver(m) /\ call[m].n < quorum)
                  => (Looping(m)' /\ res'[m] # "Ok")]_vars

====
